---- MODULE Spec2Model ----
(***************************************************************************)
(* State-machine model of src/hello.py: the SnakeGame object, the Tk timer *)
(* that drives step(), and the <KeyPress> binding.  One action per event   *)
(* handler; each action covers the whole handler including the calls it    *)
(* makes (spawn_food, draw, schedule_step, update_status).                 *)
(***************************************************************************)
EXTENDS Integers, Sequences, FiniteSets, TLC

\* Grid dimensions.  hello.py sets both to 20 (lines 12-13); the model uses a
\* small torus so that the whole state space, the win state included, is
\* explored.  4 is the narrowest grid on which reset()'s snake, which spans
\* x = W/2 - 2 .. W/2, lies inside the grid.
GRID_WIDTH == 4
GRID_HEIGHT == 2

\* Longest snake explored.  On the 4 x 2 grid this is the number of cells, so
\* the cap never binds and the win state is reached.
MaxLen == 8

\* Python's None, for food (Point | None).
None == <<>>

\* after_id is None (0 here) or the id of a pending Tk timer (1, 2, ...).
NoneId == 0

\* Key symbols delivered to on_key_press.
ArrowKeys == {"Up", "Down", "Left", "Right"}
Keys == ArrowKeys \cup {"space", "Return"}

VARIABLES
    snake,              \* deque of cells, head first
    direction,          \* direction applied by the last tick
    pending_direction,  \* direction the next tick will apply
    food,               \* a cell or None
    score,
    game_over,
    after_id,           \* id of the scheduled tick, or NoneId
    timers,             \* ids of the callbacks pending in the Tk event loop
    status,             \* text shown in the status label
    drawn_snake,        \* what the last draw() put on the canvas
    drawn_food

vars == <<snake, direction, pending_direction, food, score, game_over,
          after_id, timers, status, drawn_snake, drawn_food>>

----------------------------------------------------------------------------
\* Helpers on sequences

Range(s) == {s[i] : i \in 1..Len(s)}

\* deque.append in place of appendleft: the new cell goes to the tail end.
append(s, cell) == s \o <<cell>>

\* deque.appendleft
appendleft(s, cell) == <<cell>> \o s

\* A pop that removes nothing.
pop_nothing(s) == s

\* deque.pop: drops the rightmost element (the tail)
pop(s) == SubSeq(s, 1, Len(s) - 1)

----------------------------------------------------------------------------
\* Pure functions of hello.py

iter_grid == {<<x, y>> : x \in 0..(GRID_WIDTH - 1), y \in 0..(GRID_HEIGHT - 1)}

\* wrap_point without the modulo reduction.
wrap_point_unwrapped(cell) == cell

wrap_point(cell) == <<cell[1] % GRID_WIDTH, cell[2] % GRID_HEIGHT>>

directions(keysym) ==
    CASE keysym = "Up"    -> <<0, -1>>
      [] keysym = "Down"  -> <<0, 1>>
      [] keysym = "Left"  -> <<-1, 0>>
      [] keysym = "Right" -> <<1, 0>>

opposite(d) == <<-d[1], -d[2]>>

\* spawn_food that forgets to subtract the snake's cells.
spawn_food_anywhere(s) ==
    LET empty_cells == iter_grid \ Range(s)
    IN  IF empty_cells = {} THEN {None} ELSE iter_grid

\* spawn_food that gives up while one cell is still empty.
spawn_food_early_none(s) ==
    LET empty_cells == iter_grid \ Range(s)
    IN  IF Cardinality(empty_cells) <= 1 THEN {None} ELSE empty_cells

\* The values random.choice may leave in self.food for a snake s.
spawn_food(s) ==
    LET empty_cells == iter_grid \ Range(s)
    IN  IF empty_cells = {} THEN {None} ELSE empty_cells

\* next_cell with dx added to both coordinates.
next_cell_dx_twice(s, d) == wrap_point(<<s[1][1] + d[1], s[1][2] + d[1]>>)

\* next_cell of step(): the head moved one unit in direction d, wrapped.
next_cell(s, d) == wrap_point(<<s[1][1] + d[1], s[1][2] + d[2]>>)

\* A collision test that looks at the head only.
collides_head_only(cell, s) == cell = s[1]

\* A collision test that leaves out the tail cell.
collides_skip_tail(cell, s) == cell \in Range(pop(s))

\* "next_cell in self.snake"
collides(cell, s) == cell \in Range(s)

\* The snake reset() builds.
center == <<GRID_WIDTH \div 2, GRID_HEIGHT \div 2>>
\* A start snake of four cells.
reset_snake_four ==
    <<center, <<center[1] - 1, center[2]>>, <<center[1] - 2, center[2]>>,
      <<center[1] - 3, center[2]>>>>

reset_snake == <<center, <<center[1] - 1, center[2]>>, <<center[1] - 2, center[2]>>>>

\* root.after hands out an id not in use.
fresh_id(ts) == CHOOSE n \in 1..(Cardinality(ts) + 1) : n \notin ts

----------------------------------------------------------------------------
\* Handlers

\* reset that leaves pending_direction as it was.
reset_keeps_pending ==
    LET cancelled == IF after_id # NoneId THEN timers \ {after_id} ELSE timers
        id == fresh_id(cancelled)
    IN  /\ snake' = reset_snake
        /\ direction' = <<1, 0>>
        /\ pending_direction' = pending_direction
        /\ food' \in spawn_food(reset_snake)
        /\ score' = 0
        /\ game_over' = FALSE
        /\ status' = "start"
        /\ drawn_snake' = snake'
        /\ drawn_food' = food'
        /\ timers' = cancelled \cup {id}
        /\ after_id' = id

\* reset that leaves the score as it was.
reset_keeps_score ==
    LET cancelled == IF after_id # NoneId THEN timers \ {after_id} ELSE timers
        id == fresh_id(cancelled)
    IN  /\ snake' = reset_snake
        /\ direction' = <<1, 0>>
        /\ pending_direction' = <<1, 0>>
        /\ food' \in spawn_food(reset_snake)
        /\ score' = score
        /\ game_over' = FALSE
        /\ status' = "start"
        /\ drawn_snake' = snake'
        /\ drawn_food' = food'
        /\ timers' = cancelled \cup {id}
        /\ after_id' = id

\* reset that does not call schedule_step.
reset_no_schedule ==
    LET cancelled == IF after_id # NoneId THEN timers \ {after_id} ELSE timers
        id == fresh_id(cancelled)
    IN  /\ snake' = reset_snake
        /\ direction' = <<1, 0>>
        /\ pending_direction' = <<1, 0>>
        /\ food' \in spawn_food(reset_snake)
        /\ score' = 0
        /\ game_over' = FALSE
        /\ status' = "start"
        /\ drawn_snake' = snake'
        /\ drawn_food' = food'
        /\ timers' = cancelled
        /\ after_id' = NoneId

\* reset(): cancel the scheduled tick if any, rebuild the state, draw,
\* schedule the first tick.
reset ==
    LET cancelled == IF after_id # NoneId THEN timers \ {after_id} ELSE timers
        id == fresh_id(cancelled)
    IN  /\ snake' = reset_snake
        /\ direction' = <<1, 0>>
        /\ pending_direction' = <<1, 0>>
        /\ food' \in spawn_food(reset_snake)
        /\ score' = 0
        /\ game_over' = FALSE
        /\ status' = "start"
        /\ drawn_snake' = snake'
        /\ drawn_food' = food'
        /\ timers' = cancelled \cup {id}
        /\ after_id' = id

\* process_direction that tests the reversal against pending_direction
\* instead of direction.
process_direction_vs_pending(keysym) ==
    LET new_direction == directions(keysym)
    IN  /\ IF Len(snake) > 1 /\ new_direction = opposite(pending_direction)
             THEN pending_direction' = pending_direction
             ELSE pending_direction' = new_direction
        /\ UNCHANGED <<snake, direction, food, score, game_over, after_id,
                       timers, status, drawn_snake, drawn_food>>

\* process_direction that writes an accepted direction into direction too.
process_direction_sets_direction(keysym) ==
    LET new_direction == directions(keysym)
    IN  /\ IF Len(snake) > 1 /\ new_direction = opposite(direction)
             THEN UNCHANGED <<pending_direction, direction>>
             ELSE pending_direction' = new_direction /\ direction' = new_direction
        /\ UNCHANGED <<snake, food, score, game_over, after_id,
                       timers, status, drawn_snake, drawn_food>>

\* process_direction that accepts only the first press after a tick.
process_direction_first_wins(keysym) ==
    LET new_direction == directions(keysym)
    IN  /\ IF \/ Len(snake) > 1 /\ new_direction = opposite(direction)
              \/ pending_direction # direction
             THEN pending_direction' = pending_direction
             ELSE pending_direction' = new_direction
        /\ UNCHANGED <<snake, direction, food, score, game_over, after_id,
                       timers, status, drawn_snake, drawn_food>>

\* process_direction(keysym): record the pending direction unless it
\* reverses the current direction.
process_direction(keysym) ==
    LET new_direction == directions(keysym)
    IN  /\ IF Len(snake) > 1 /\ new_direction = opposite(direction)
             THEN pending_direction' = pending_direction
             ELSE pending_direction' = new_direction
        /\ UNCHANGED <<snake, direction, food, score, game_over, after_id,
                       timers, status, drawn_snake, drawn_food>>

\* on_key_press that restarts on any key once the game is over.
on_key_press_any_restarts(keysym) ==
    IF game_over
      THEN reset
      ELSE IF keysym \in ArrowKeys
             THEN process_direction(keysym)
             ELSE UNCHANGED vars

\* on_key_press whose space branch does not test game_over.
on_key_press_space_always(keysym) ==
    IF keysym \in ArrowKeys
      THEN process_direction(keysym)
      ELSE IF keysym = "space"
             THEN reset
             ELSE UNCHANGED vars

\* on_key_press(event)
on_key_press(keysym) ==
    IF keysym \in ArrowKeys
      THEN process_direction(keysym)
      ELSE IF keysym = "space" /\ game_over
             THEN reset
             ELSE UNCHANGED vars

\* step(): the Tk timer with the given id fires.  An eating tick is explored
\* only while the snake is shorter than MaxLen.
step(id) ==
    /\ id \in timers
    /\ IF game_over
         THEN /\ after_id' = NoneId
              /\ timers' = timers \ {id}
              /\ UNCHANGED <<snake, direction, pending_direction, food, score,
                             game_over, status, drawn_snake, drawn_food>>
         ELSE LET d == pending_direction
                  nc == next_cell(snake, d)
                  grown == appendleft(snake, nc)
              IN  /\ direction' = d
                  /\ UNCHANGED pending_direction
                  /\ IF collides(nc, snake)
                       THEN /\ game_over' = TRUE
                            /\ status' = "game over"
                            /\ after_id' = NoneId
                            /\ timers' = timers \ {id}
                            /\ UNCHANGED <<snake, food, score, drawn_snake,
                                           drawn_food>>
                       ELSE /\ IF nc = food
                                 THEN /\ Len(snake) < MaxLen
                                      /\ snake' = grown
                                      /\ score' = score + 1
                                      /\ food' \in spawn_food(grown)
                                 ELSE /\ snake' = pop(grown)
                                      /\ score' = score
                                      /\ food' = food
                            /\ IF food' = None
                                 THEN /\ game_over' = TRUE
                                      /\ status' = "win"
                                      /\ after_id' = NoneId
                                      /\ timers' = timers \ {id}
                                      /\ UNCHANGED <<drawn_snake, drawn_food>>
                                 ELSE /\ game_over' = FALSE
                                      /\ status' = status
                                      /\ drawn_snake' = snake'
                                      /\ drawn_food' = food'
                                      /\ LET nid == fresh_id(timers \ {id})
                                         IN  /\ timers' = (timers \ {id}) \cup {nid}
                                             /\ after_id' = nid

----------------------------------------------------------------------------
\* The state after SnakeGame(root): __init__ sets the fields and calls reset().
Init ==
    /\ snake = reset_snake
    /\ direction = <<1, 0>>
    /\ pending_direction = <<1, 0>>
    /\ food \in spawn_food(reset_snake)
    /\ score = 0
    /\ game_over = FALSE
    /\ status = "start"
    /\ drawn_snake = snake
    /\ drawn_food = food
    /\ timers = {1}
    /\ after_id = 1

Tick == \E id \in timers : step(id)

KeyPress == \E keysym \in Keys : on_key_press(keysym)

Next == Tick \/ KeyPress

Spec == Init /\ [][Next]_vars

----------------------------------------------------------------------------
\* C1: in every reachable state the food cell, when it is not None, is not
\* one of the snake's cells.
FoodNotOnSnake == food # None => food \notin Range(snake)

\* Food has been respawned by a tick that ate the previous one.
FoodRespawned == score > 0 /\ food # None /\ ~game_over

\* The transitions of an arrow-key press.
ArrowPress == \E keysym \in ArrowKeys : on_key_press(keysym)

\* The transition of a space-key press.
SpacePress == on_key_press("space")

\* The state reset() leaves, up to the food placement.
ResetState ==
    /\ snake = <<<<GRID_WIDTH \div 2, GRID_HEIGHT \div 2>>,
                 <<GRID_WIDTH \div 2 - 1, GRID_HEIGHT \div 2>>,
                 <<GRID_WIDTH \div 2 - 2, GRID_HEIGHT \div 2>>>>
    /\ direction = <<1, 0>>
    /\ pending_direction = <<1, 0>>
    /\ score = 0
    /\ ~game_over

\* A cell of the grid.
OnGrid(cell) ==
    /\ cell[1] \in 0..(GRID_WIDTH - 1)
    /\ cell[2] \in 0..(GRID_HEIGHT - 1)

\* One coordinate moved by one step on a ring of n positions.
RingStep(x, dx, n) ==
    IF x + dx = n THEN 0 ELSE IF x + dx = -1 THEN n - 1 ELSE x + dx

\* Cells a and b differ by one unit step in exactly one coordinate, modulo
\* the grid dimensions.
TorusNeighbours(a, b) ==
    \/ /\ a[2] = b[2]
       /\ (a[1] = RingStep(b[1], 1, GRID_WIDTH) \/ a[1] = RingStep(b[1], -1, GRID_WIDTH))
    \/ /\ a[1] = b[1]
       /\ (a[2] = RingStep(b[2], 1, GRID_HEIGHT) \/ a[2] = RingStep(b[2], -1, GRID_HEIGHT))

\* The cell right of the head, wrapped.
RightOfHead == <<(snake[1][1] + 1) % GRID_WIDTH, snake[1][2]>>

----------------------------------------------------------------------------
\* C2: pending_direction is never the exact opposite of direction, and the
\* direction a tick applies is never the opposite of the direction that was
\* in force before it.
NoReversal ==
    /\ [](pending_direction # <<-direction[1], -direction[2]>>)
    /\ [][Tick => direction' # <<-direction[1], -direction[2]>>]_vars

\* A turn has been applied by a tick and a further turn is pending.
TurnPendingAfterTurn ==
    /\ direction # <<1, 0>>
    /\ pending_direction # direction
    /\ ~game_over

----------------------------------------------------------------------------
\* C3: a tick taken while the game is not over leaves the snake length
\* unchanged, except that it is one larger when the new head cell was the
\* food cell; a tick that ends the game by collision leaves it unchanged.
TickLength ==
    [][(Tick /\ ~game_over) =>
         /\ Len(snake') = Len(snake) + (IF snake'[1] = food THEN 1 ELSE 0)
         /\ (status' = "game over" => Len(snake') = Len(snake))]_vars

\* The snake has grown and kept moving.
GrownAndMoved == Len(snake) > 3 /\ food # None /\ snake[1] # drawn_food

----------------------------------------------------------------------------
\* C4 as stated: from the state reset() leaves, whatever the food placement,
\* a tick with no turn pending moves the head one cell right and drops the
\* old tail, so the snake still has 3 cells.
FirstTickAlwaysThreeCells ==
    [][(ResetState /\ Tick) =>
         snake' = <<RightOfHead, snake[1], snake[2]>>]_vars

\* C4 amended: the same, provided the food is not the cell right of the
\* head; when it is, the head moves there and the tail is kept, so the
\* snake has 4 cells.
FirstTickMovesRight ==
    [][(ResetState /\ Tick) =>
         IF food = RightOfHead
           THEN snake' = <<RightOfHead, snake[1], snake[2], snake[3]>>
           ELSE snake' = <<RightOfHead, snake[1], snake[2]>>]_vars

\* The state after that first tick when nothing was eaten.
AfterFirstTick ==
    /\ snake = <<<<GRID_WIDTH \div 2 + 1, GRID_HEIGHT \div 2>>,
                 <<GRID_WIDTH \div 2, GRID_HEIGHT \div 2>>,
                 <<GRID_WIDTH \div 2 - 1, GRID_HEIGHT \div 2>>>>
    /\ direction = <<1, 0>>
    /\ score = 0

----------------------------------------------------------------------------
\* C5: once game_over is true, ticks and arrow-key presses change none of
\* snake, food, score and game_over, and game_over becomes false again only
\* by the reset of a space-key press.
TerminalUntilReset ==
    [][game_over =>
         /\ (Tick \/ ArrowPress) => UNCHANGED <<snake, food, score, game_over>>
         /\ ~game_over' => SpacePress]_vars

\* An arrow key was accepted after the game ended by collision.
ArrowAfterCollision ==
    /\ game_over
    /\ status = "game over"
    /\ pending_direction # direction

----------------------------------------------------------------------------
\* C6: the food is None exactly when the snake occupies every cell of the
\* grid, and whenever the food is None game_over is true.
FoodNoneIffGridFull ==
    /\ food = None <=>
          \A x \in 0..(GRID_WIDTH - 1), y \in 0..(GRID_HEIGHT - 1) :
              \E i \in 1..Len(snake) : snake[i] = <<x, y>>
    /\ food = None => game_over

\* The game has been won.
Won == food = None /\ game_over /\ status = "win"

----------------------------------------------------------------------------
\* C7: the constructor's reset and every reset by the space key leave the
\* 3-cell centred snake, direction and pending_direction right, score 0,
\* game_over false, the food on a grid cell off the snake, and exactly one
\* tick scheduled, whose id is after_id.
StartState ==
    /\ ResetState
    /\ food # None
    /\ OnGrid(food)
    /\ \A i \in 1..Len(snake) : snake[i] # food
    /\ Cardinality(timers) = 1
    /\ after_id \in timers

ResetLeavesStartState ==
    /\ StartState
    /\ [][(game_over /\ SpacePress) => StartState']_vars

\* A freshly reset game: drawn, status text set, first tick scheduled.
FreshGame ==
    /\ StartState
    /\ status = "start"
    /\ drawn_snake = snake
    /\ drawn_food = food

----------------------------------------------------------------------------
\* C8: every snake cell lies on the grid, and a tick that moves the head
\* moves it one step in the applied direction, a step past an edge
\* re-entering at the opposite edge.
SnakeOnGridWrapped ==
    /\ [](\A i \in 1..Len(snake) : OnGrid(snake[i]))
    /\ [][(Tick /\ snake' # snake) =>
            snake'[1] = <<RingStep(snake[1][1], direction'[1], GRID_WIDTH),
                          RingStep(snake[1][2], direction'[2], GRID_HEIGHT)>>]_vars

\* The head has crossed the right edge and re-entered at the left one.
HeadWrappedRight ==
    /\ snake[1][1] = 0
    /\ snake[2][1] = GRID_WIDTH - 1
    /\ direction = <<1, 0>>

----------------------------------------------------------------------------
\* C9: the snake's cells are pairwise distinct.
SnakeCellsDistinct ==
    \A i, j \in 1..Len(snake) : i # j => snake[i] # snake[j]

\* A snake long enough to run into itself has done so.
LongSnakeCollided == Len(snake) > 4 /\ status = "game over"

----------------------------------------------------------------------------
\* C10: consecutive snake cells are toroidal neighbours.
SnakeContiguous ==
    \A i \in 1..(Len(snake) - 1) : TorusNeighbours(snake[i], snake[i + 1])

\* A snake with a horizontal link, a vertical link and a link across an edge.
BentAcrossEdge ==
    /\ \E i \in 1..(Len(snake) - 1) : snake[i][1] # snake[i + 1][1]
    /\ \E i \in 1..(Len(snake) - 1) : snake[i][2] # snake[i + 1][2]
    /\ \E i \in 1..(Len(snake) - 1) :
          snake[i][1] - snake[i + 1][1] \in {GRID_WIDTH - 1, 1 - GRID_WIDTH}

----------------------------------------------------------------------------
\* C11: the score is never negative; a tick adds exactly 1 to it when the
\* new head cell is the food cell and nothing otherwise; the score decreases
\* only in the reset of a space-key press, which sets it to 0.
ScoreCountsFood ==
    /\ [](score >= 0)
    /\ [][/\ Tick => score' = score + (IF snake'[1] = food THEN 1 ELSE 0)
          /\ score' < score => (game_over /\ SpacePress)
          /\ (game_over /\ SpacePress) => score' = 0]_vars

\* Two foods have been eaten in the current game.
ScoredTwice == score >= 2 /\ Len(snake) >= 5

----------------------------------------------------------------------------
\* C12: in every state with game_over true a space-key press performs reset
\* (start state, status text, redraw, one tick scheduled); in every state
\* with game_over false it changes nothing at all.
SpaceRestartsOnlyWhenOver ==
    [](/\ ENABLED SpacePress
       /\ IF game_over
            THEN ~ENABLED (SpacePress /\ ~(/\ StartState'
                                           /\ status' = "start"
                                           /\ drawn_snake' = snake'
                                           /\ drawn_food' = food'))
            ELSE ~ENABLED (SpacePress /\ ~UNCHANGED vars))

\* A game in progress, away from the start position, with its tick scheduled.
GameInProgress ==
    /\ ~game_over
    /\ after_id # NoneId
    /\ snake[1] # <<GRID_WIDTH \div 2, GRID_HEIGHT \div 2>>
    /\ status = "start"

----------------------------------------------------------------------------
\* The unit vector of an arrow key.
KeyVector(keysym) ==
    IF keysym = "Up" THEN <<0, -1>>
    ELSE IF keysym = "Down" THEN <<0, 1>>
    ELSE IF keysym = "Left" THEN <<-1, 0>>
    ELSE <<1, 0>>

\* C13: in every state, whatever arrow key is pressed, the press leaves
\* snake, direction, food, score, game_over and the scheduled tick unchanged,
\* and a press of the key that reverses direction leaves pending_direction
\* unchanged as well.
ArrowPressFrame ==
    [](\A keysym \in ArrowKeys :
         /\ ENABLED on_key_press(keysym)
         /\ ~ENABLED (/\ on_key_press(keysym)
                      /\ ~UNCHANGED <<snake, direction, food, score, game_over,
                                       after_id, timers>>)
         /\ KeyVector(keysym) = <<-direction[1], -direction[2]>> =>
               ~ENABLED (on_key_press(keysym) /\ ~UNCHANGED pending_direction))

\* A turn has been accepted and not yet applied, the snake moving left.
TurnPendingMovingLeft ==
    /\ direction = <<-1, 0>>
    /\ pending_direction # direction
    /\ ~game_over

----------------------------------------------------------------------------
\* C14: after every tick the snake and food last drawn are the current
\* snake and food, the tick that fills the grid included.
TickRedraws ==
    [][Tick => (drawn_snake' = snake' /\ drawn_food' = food')]_vars

----------------------------------------------------------------------------
\* The cell one step from cell c in direction d, wrapped.
StepFrom(c, d) ==
    <<RingStep(c[1], d[1], GRID_WIDTH), RingStep(c[2], d[2], GRID_HEIGHT)>>

\* C15: a tick taken while the game is not over ends the game by collision
\* exactly when the wrapped next head cell is a cell of the snake as it is
\* before the move, the tail included; such a tick leaves snake, score and
\* food unchanged.
CollisionEndsGame ==
    [][(Tick /\ ~game_over) =>
         LET hit == \E i \in 1..Len(snake) :
                        snake[i] = StepFrom(snake[1], pending_direction)
         IN  /\ (game_over' /\ status' = "game over") <=> hit
             /\ hit => UNCHANGED <<snake, score, food>>]_vars

\* The game ended with the head running into the cell of its own tail.
HitOwnTail ==
    /\ game_over
    /\ status = "game over"
    /\ StepFrom(snake[1], direction) = snake[Len(snake)]

----------------------------------------------------------------------------
\* C16: direction changes only in a tick or a reset; a tick applies
\* pending_direction and moves the head in it; an arrow key is tested for
\* reversal against direction, whatever is pending, and when accepted
\* replaces what is pending.
PendingAfter(keysym) ==
    IF KeyVector(keysym) = <<-direction[1], -direction[2]>>
      THEN pending_direction
      ELSE KeyVector(keysym)

DirectionFollowsPending ==
    /\ [](\A keysym \in ArrowKeys :
            /\ ENABLED on_key_press(keysym)
            /\ ~ENABLED (/\ on_key_press(keysym)
                         /\ pending_direction' # PendingAfter(keysym)))
    /\ [][/\ direction' # direction => (Tick \/ (game_over /\ SpacePress))
          /\ (Tick /\ ~game_over) =>
                /\ direction' = pending_direction
                /\ pending_direction' = pending_direction
                /\ snake' # snake =>
                      snake'[1] = StepFrom(snake[1], pending_direction)]_vars

\* A vertical turn has been applied by a tick and the head moved in it.
VerticalTurnApplied ==
    /\ direction[2] # 0
    /\ pending_direction = direction
    /\ snake[1] = StepFrom(snake[2], direction)
    /\ ~game_over

----------------------------------------------------------------------------
\* C17: at most one tick is pending, a tick is scheduled (after_id is not
\* None, and is the pending tick) exactly when game_over is false, and no
\* tick is pending while game_over is true.
OneTickIffPlaying ==
    /\ Cardinality(timers) <= 1
    /\ after_id # NoneId <=> ~game_over
    /\ after_id # NoneId => timers = {after_id}
    /\ game_over => timers = {}

\* A game that scored has ended and its timer is gone.
TimerGoneAfterGame ==
    /\ game_over
    /\ score > 0
    /\ after_id = NoneId
    /\ timers = {}

----------------------------------------------------------------------------
\* C18: the score equals the snake length minus 3.
ScoreIsGrowth == score = Len(snake) - 3

\* Three foods eaten, six cells.
SixCellsThreePoints == Len(snake) = 6 /\ score = 3

====
